---- MODULE Spec2Model ----
(***************************************************************************)
(* Model of internetcomputer.py: the text chunker, the embed builders, the *)
(* blocking stream producer, the paced display consumer and the request    *)
(* handler respond_with_ai.                                                *)
(*                                                                         *)
(* A string is a sequence of one-character strings.                        *)
(***************************************************************************)
EXTENDS Integers, Sequences, FiniteSets, TLC

\* ---------------------------------------------------------------- bounds
\* longest text handed to a pure function
MaxLen == 5
\* largest limit handed to chunk_text directly
MaxLimit == 3
\* number of increments the upstream stream may yield
MaxChunks == 3
\* stall timeout of the specification, in consumer ticks
STALL_TIMEOUT == 2
\* idle ticks are counted up to here
MaxIdle == 4
\* requests that call get_or_create_channel_webhook for one channel
NumRequests == 3
\* a capacity the queue is compared with
Capacity == 2

\* ------------------------------------------------------ program constants
\* scaled down from 1024 / 5500 / 40 so that the limits are reached
EMBED_FIELD_LIMIT == 3
ANSWER_TOTAL_LIMIT == 4
CHARS_PER_TICK == 2

NL == "\n"
CR == "\r"
SP == " "
Chars == {"a", SP, NL, CR}
\* characters str.rstrip() / str.strip() remove
Whitespace == {SP, NL, CR}
\* the line boundaries of str.splitlines that occur in Chars
LineEnds == {NL, CR}

\* "\n…(truncated)" : 13 characters
TRUNC_MARKER == <<NL, "U+2026", "(", "t", "r", "u", "n", "c", "a", "t", "e", "d", ")">>
\* " ▋" : 2 characters
CURSOR == <<SP, "U+258B">>
\* "No answer returned." and "⏳ generating...", scaled with the limits: a token
\* stands for a run of characters, so that the literals stay below
\* ANSWER_TOTAL_LIMIT and EMBED_FIELD_LIMIT as 19 and 15 characters stay below
\* 5500 and 1024
NO_ANSWER == <<"No answer", SP, "returned.">>
GENERATING == <<"U+23F3", SP, "generating...">>

Min(a, b) == IF a <= b THEN a ELSE b

\* all strings over A of length at most n
StringsUpTo(A, n) == UNION {[1..k -> A] : k \in 0..n}

\* ---------------------------------------------------------- str methods
\* "".join(parts)
RECURSIVE Join(_)
Join(parts) == IF parts = <<>> THEN <<>> ELSE Head(parts) \o Join(Tail(parts))

\* s.lstrip(chars) / s.rstrip(chars) / s.strip(chars)
RECURSIVE LStripSet(_, _)
LStripSet(s, cs) ==
    IF s # <<>> /\ Head(s) \in cs THEN LStripSet(Tail(s), cs) ELSE s

RECURSIVE RStripSet(_, _)
RStripSet(s, cs) ==
    IF s # <<>> /\ s[Len(s)] \in cs THEN RStripSet(SubSeq(s, 1, Len(s) - 1), cs) ELSE s

StripSet(s, cs) == LStripSet(RStripSet(s, cs), cs)

\* s[:n]
Prefix(s, n) == SubSeq(s, 1, Min(n, Len(s)))

\* length of the first line of s, its line boundary included ("\r\n" is one boundary)
RECURSIVE FirstLineLen(_, _)
FirstLineLen(s, i) ==
    IF i > Len(s) THEN Len(s)
    ELSE IF s[i] = CR /\ i < Len(s) /\ s[i + 1] = NL THEN i + 1
    ELSE IF s[i] \in LineEnds THEN i
    ELSE FirstLineLen(s, i + 1)

\* s.splitlines(keepends=True)
RECURSIVE SplitLines(_)
SplitLines(s) ==
    IF s = <<>> THEN <<>>
    ELSE LET n == FirstLineLen(s, 1)
         IN  <<SubSeq(s, 1, n)>> \o SplitLines(SubSeq(s, n + 1, Len(s)))

\* ------------------------------------------------------------ chunk_text
\* chunks.append("".join(buf)); buf, total = [], 0
FlushBuf(st) ==
    [chunks |-> Append(st.chunks, Join(st.buf)), buf |-> <<>>, total |-> 0]

\* FlushIfFull testing the buffer alone, not the buffer plus the piece to come
FlushIfFullLate(st, x, limit) ==
    IF st.total > limit /\ st.buf # <<>> THEN FlushBuf(st) ELSE st

\* if total + len(x) > limit and buf: flush
FlushIfFull(st, x, limit) ==
    IF st.total + Len(x) > limit /\ st.buf # <<>> THEN FlushBuf(st) ELSE st

\* buf.append(x); total += len(x)
AddToBuf(st, x) ==
    [st EXCEPT !.buf = Append(@, x), !.total = @ + Len(x)]

\* for i in range(0, len(line), limit): ... (i is 0-based)
RECURSIVE HardSplit(_, _, _, _)
HardSplit(st, line, limit, i) ==
    IF i >= Len(line) THEN st
    ELSE LET piece == SubSeq(line, i + 1, Min(i + limit, Len(line)))
         IN  HardSplit(AddToBuf(FlushIfFull(st, piece, limit), piece), line, limit, i + limit)

\* body of "for line in s.splitlines(keepends=True)"
ChunkLine(st, line, limit) ==
    LET st1 == FlushIfFull(st, line, limit)
    IN  IF Len(line) > limit THEN HardSplit(st1, line, limit, 0)
        ELSE AddToBuf(st1, line)

RECURSIVE ChunkLines(_, _, _)
ChunkLines(st, lines, limit) ==
    IF lines = <<>> THEN st
    ELSE ChunkLines(ChunkLine(st, Head(lines), limit), Tail(lines), limit)

\* the chunks before the final comprehension
RawChunks(s, limit) ==
    LET st == ChunkLines([chunks |-> <<>>, buf |-> <<>>, total |-> 0], SplitLines(s), limit)
    IN  IF st.buf # <<>> THEN Append(st.chunks, Join(st.buf)) ELSE st.chunks

\* StripChunks with c.strip() in place of c.strip("\n")
RECURSIVE StripChunksAll(_)
StripChunksAll(chunks) ==
    IF chunks = <<>> THEN <<>>
    ELSE IF Head(chunks) # <<>>
         THEN <<StripSet(Head(chunks), Whitespace)>> \o StripChunksAll(Tail(chunks))
         ELSE StripChunksAll(Tail(chunks))

\* [c.strip("\n") for c in chunks if c]
RECURSIVE StripChunks(_)
StripChunks(chunks) ==
    IF chunks = <<>> THEN <<>>
    ELSE IF Head(chunks) # <<>>
         THEN <<StripSet(Head(chunks), {NL})>> \o StripChunks(Tail(chunks))
         ELSE StripChunks(Tail(chunks))

chunk_text(s, limit) ==
    IF Len(s) <= limit THEN <<s>> ELSE StripChunks(RawChunks(s, limit))

\* ---------------------------------------------------------------- embeds
\* An embed is [color, author, fields]; a field is [name, idx, value], where
\* idx is the N of "... (cont. N)" and 0 otherwise.
Field(name, idx, value) == [name |-> name, idx |-> idx, value |-> value]

\* f.name.lower().startswith("answer")
IsAnswerField(f) == f.name \in {"Answer", "Answer (streaming)", "Answer (cont.)"}

\* a field value used as it is, empty or not
AsIs(value) == value

\* value or "—"
OrDash(value) == IF value # <<>> THEN value ELSE <<"U+2014">>

\* the question of the request and the asker's identity (get_asker_identity)
Question == <<"q", "?">>
AskerName == "asker"
AskerAvatar == "avatar-url"

\* the author of an embed: [name, icon]; an embed without set_author has NoAuthor
NoAuthor == [name |-> <<>>, icon |-> ""]
\* set_author(name=f"{asker_name} asked", icon_url=asker_avatar or Empty),
\* when asker_name is not empty (SHOW_ASKER_AVATAR is on)
AskedBy(asker_name, asker_avatar) ==
    IF asker_name # "" THEN [name |-> <<asker_name, " asked">>, icon |-> asker_avatar]
    ELSE NoAuthor

RECURSIVE FieldsOf(_, _, _, _)
\* one field per chunk: `first` for chunk 0, `cont` (cont. i) for chunk i
FieldsOf(chunks, first, cont, i) ==
    IF chunks = <<>> THEN <<>>
    ELSE <<Field(IF i = 0 THEN first ELSE cont, i, OrDash(Head(chunks)))>>
         \o FieldsOf(Tail(chunks), first, cont, i + 1)

make_embed(question, asker_name, asker_avatar, answer_preview) ==
    [color  |-> "blurple",
     author |-> AskedBy(asker_name, asker_avatar),
     fields |-> FieldsOf(chunk_text(question, EMBED_FIELD_LIMIT), "Question", "Question (cont.)", 0)
                \o <<Field("Answer", 0, answer_preview)>>]

\* Truncate that adds the marker without cutting the text
TruncateNoCut(x) ==
    IF Len(x) > ANSWER_TOTAL_LIMIT THEN x \o TRUNC_MARKER ELSE x

\* Truncate cutting one character late: x[:ANSWER_TOTAL_LIMIT + 1]
TruncateOneLate(x) ==
    IF Len(x) > ANSWER_TOTAL_LIMIT
    THEN RStripSet(Prefix(x, ANSWER_TOTAL_LIMIT + 1), Whitespace) \o TRUNC_MARKER
    ELSE x

\* if len(x) > ANSWER_TOTAL_LIMIT: x = x[:ANSWER_TOTAL_LIMIT].rstrip() + "\n…(truncated)"
Truncate(x) ==
    IF Len(x) > ANSWER_TOTAL_LIMIT
    THEN RStripSet(Prefix(x, ANSWER_TOTAL_LIMIT), Whitespace) \o TRUNC_MARKER
    ELSE x

\* the text update_embed_with_answer hands to chunk_text
AnswerBody(answer) == Truncate(answer)

\* the text update_embed_with_partial hands to chunk_text
PartialBody(partial, show_cursor) ==
    IF show_cursor THEN RStripSet(Truncate(partial) \o CURSOR, Whitespace)
    ELSE Truncate(partial)

\* an update that carries every field over
AllFields(emb) == emb.fields

\* the fields of emb that are kept: those whose name does not start with "answer"
KeptFields(emb) == SelectSeq(emb.fields, LAMBDA f : ~IsAnswerField(f))

\* if emb.author and emb.author.name: new_emb.set_author(name, icon_url)
PreservedAuthor(emb) ==
    IF emb.author.name # <<>>
    THEN [name |-> emb.author.name, icon |-> emb.author.icon]
    ELSE NoAuthor

\* usage_text is <<>> for None (both are falsy)
update_embed_with_answer(emb, answer, usage_text) ==
    [color  |-> "green",
     author |-> PreservedAuthor(emb),
     fields |-> KeptFields(emb)
                \o FieldsOf(chunk_text(AnswerBody(answer), EMBED_FIELD_LIMIT), "Answer", "Answer (cont.)", 0)
                \o (IF usage_text # <<>>
                    THEN <<Field("Usage", 0, Prefix(usage_text, EMBED_FIELD_LIMIT))>>
                    ELSE <<>>)]

update_embed_with_partial(emb, partial, show_cursor) ==
    [color  |-> "blurple",
     author |-> PreservedAuthor(emb),
     fields |-> KeptFields(emb)
                \o FieldsOf(chunk_text(PartialBody(partial, show_cursor), EMBED_FIELD_LIMIT),
                            "Answer (streaming)", "Answer (cont.)", 0)]

\* ------------------------------------------------------------ the request
VARIABLES
    put_func,     \* the put_func handed to _produce_stream_sync
    opc,          \* respond_with_ai: "start", "streaming", "handler", "done"
    msg,          \* the embed the posted message shows
    posted,       \* send_initial_message has returned the message
    error_replies,\* number of error replies the outer handler attempted
    error_shown,  \* an error reply was delivered
    ppc,          \* _produce_stream_sync: "none", "created", "reading", "returned",
                  \* "raised" (the stream's exception, out of the try/finally),
                  \* "put_raised" (put_func's exception), "open_raised" (out of create)
    stream_end,   \* how iterating the stream ended: "none" (not yet), "end", "error"
    reads,        \* number of increments read from the upstream stream
    received,     \* the non-empty deltas read from the upstream, in order
    put_log,      \* the items the channel accepted from put_func, in order
    scheduled,    \* q.put_nowait callbacks handed to loop.call_soon_threadsafe, not yet run
    q,            \* the asyncio.Queue
    cpc,          \* smooth_typing_display: "none", "sleeping", "returned"
    assembled,    \* the list of deltas drained so far
    shown_len,
    done,
    idle,         \* consecutive loop iterations that drained no delta
    final_text,   \* the value smooth_typing_display returned
    last_edit,    \* the last msg.edit issued: [kind, shown, cursor, ok]
    fn,           \* the pure function applied last: "none" before any call
    arg_s,        \* its text argument
    arg_limit,    \* the limit handed to chunk_text
    arg_cursor,   \* show_cursor of update_embed_with_partial
    ret_chunks,   \* the result of chunk_text
    ret_body,     \* the text the embed builder handed to chunk_text
    ret_emb,      \* the embed the builder returned
    arg_emb,      \* the embed handed to the builder
    arg_usage,    \* usage_text of update_embed_with_answer
    wh_cache,     \* _webhook_cache[channel.id] of the one channel the requests share
    wh_pc,        \* get_or_create_channel_webhook of each request: "idle", "start",
                  \* "listing" (in await channel.webhooks()), "creating" (in await
                  \* channel.create_webhook()), "done"
    wh_ret,       \* what it returned to each request
    channel_api,  \* hasattr(channel, "create_webhook")
    channel_webhooks, \* the channel's webhooks named "AI Relay" that have a token
    wh_created,   \* number of webhooks create_webhook has made
    wh_overwritten \* a request stored into a cache entry that was already set

reqVars == <<put_func, opc, msg, posted, error_replies, error_shown, ppc, stream_end, reads,
             received,
             put_log, scheduled, q, cpc, assembled, shown_len, done, idle, final_text,
             last_edit>>
fnVars == <<fn, arg_s, arg_limit, arg_cursor, ret_chunks, ret_body, ret_emb, arg_emb, arg_usage>>
whVars == <<wh_cache, wh_pc, wh_ret, channel_api, channel_webhooks, wh_created, wh_overwritten>>
vars == <<reqVars, fnVars, whVars>>

\* items of the channel
SENTINEL == [kind |-> "sentinel", text |-> <<>>]
Delta(text) == [kind |-> "delta", text |-> text]

\* what one increment of the upstream stream carries: no content at all
\* (delta = None, or reading chunk.choices[0].delta raises), or a text
NoContent == [kind |-> "none", text |-> <<>>]
Increments == {NoContent, Delta(<<>>), Delta(<<"a">>), Delta(<<SP>>), Delta(<<"b", ".">>)}

\* "put_now": the closure respond_with_ai builds, called from the worker thread of
\* asyncio.to_thread.  "enqueue": a put_func that hands q.put_nowait to the loop.
PutFuncs == {"put_now", "enqueue"}

NoEmbed == [color |-> "none", author |-> NoAuthor, fields |-> <<>>]
NoEdit == [kind |-> "none", shown |-> 0, cursor |-> FALSE, ok |-> FALSE]

base_embed == make_embed(Question, AskerName, AskerAvatar, GENERATING)

\* put_now(item), called from the producer's thread: asyncio.get_running_loop()
\* raises RuntimeError in a thread that runs no event loop, so nothing is scheduled;
\* otherwise loop.call_soon_threadsafe(q.put_nowait, item) schedules the put.
\* The result is the callbacks scheduled, or "raised".
put_now_raises == put_func = "put_now"

fnIdle ==
    /\ fn = "none" /\ arg_s = <<>> /\ arg_limit = 1 /\ arg_cursor = FALSE
    /\ ret_chunks = <<>> /\ ret_body = <<>> /\ ret_emb = NoEmbed
    /\ arg_emb = NoEmbed /\ arg_usage = <<>>

\* the requests that share a channel
Requests == 1..NumRequests

\* a webhook: None, one found on the channel, or the one request `by` created
NoWebhook == [origin |-> "none", by |-> 0]
FoundWebhook == [origin |-> "found", by |-> 0]
Created(r) == [origin |-> "created", by |-> r]

whIdle ==
    /\ wh_cache = NoWebhook
    /\ wh_pc = [r \in Requests |-> "idle"]
    /\ wh_ret = [r \in Requests |-> NoWebhook]
    /\ channel_api = TRUE
    /\ channel_webhooks = {}
    /\ wh_created = 0
    /\ wh_overwritten = FALSE

Init ==
    /\ put_func \in PutFuncs
    /\ opc = "start" /\ msg = NoEmbed /\ posted = FALSE
    /\ error_replies = 0 /\ error_shown = FALSE
    /\ ppc = "none" /\ stream_end = "none" /\ reads = 0 /\ received = <<>> /\ put_log = <<>>
    /\ scheduled = <<>> /\ q = <<>>
    /\ cpc = "none" /\ assembled = <<>> /\ shown_len = 0 /\ done = FALSE
    /\ idle = 0 /\ final_text = <<>> /\ last_edit = NoEdit
    /\ fnIdle
    /\ whIdle

\* respond_with_ai up to the first suspension of smooth_typing_display: the initial
\* embed is posted (or posting raises), the queue and the producer task are created
\* and the consumer runs its first loop iteration on the empty queue, then sleeps.
SendInitial ==
    /\ opc = "start"
    /\ \E ok \in BOOLEAN :
          IF ok
          THEN /\ opc' = "streaming" /\ msg' = base_embed /\ posted' = TRUE
               /\ ppc' = "created" /\ cpc' = "sleeping"
          ELSE /\ opc' = "handler"
               /\ UNCHANGED <<msg, posted, ppc, cpc>>
    /\ UNCHANGED <<put_func, error_replies, error_shown, stream_end, reads, received, put_log,
                   scheduled, q, assembled, shown_len, done, idle, final_text, last_edit,
                   fnVars, whVars>>

\* client.chat.completions.create(...): outside the try/finally
ProducerOpen ==
    /\ ppc = "created"
    /\ \E ok \in BOOLEAN : ppc' = IF ok THEN "reading" ELSE "open_raised"
    /\ UNCHANGED <<put_func, opc, msg, posted, error_replies, error_shown, stream_end, reads,
                   received, put_log, scheduled, q, cpc, assembled, shown_len, done, idle,
                   final_text, last_edit, fnVars, whVars>>

\* put_func(SENTINEL) of the finally clause; `after` is how the function ends
\* when that put does not raise
Finally(after) ==
    IF put_now_raises
    THEN /\ ppc' = "put_raised"
         /\ UNCHANGED <<scheduled, put_log>>
    ELSE /\ ppc' = after
         /\ scheduled' = Append(scheduled, SENTINEL)
         /\ put_log' = Append(put_log, SENTINEL)

\* one iteration of "for chunk in stream": read an increment, forward its delta
ProducerNext ==
    /\ ppc = "reading"
    /\ reads < MaxChunks
    /\ \E inc \in Increments :
          /\ reads' = reads + 1
          /\ IF inc.kind = "delta" /\ inc.text # <<>>
             THEN /\ received' = Append(received, inc.text)
                  /\ IF put_now_raises
                     THEN Finally("raised")
                     ELSE /\ scheduled' = Append(scheduled, inc)
                          /\ put_log' = Append(put_log, inc)
                          /\ ppc' = "reading"
             ELSE UNCHANGED <<received, scheduled, put_log, ppc>>
    /\ UNCHANGED <<put_func, opc, msg, posted, error_replies, error_shown, stream_end, q, cpc,
                   assembled, shown_len, done, idle, final_text, last_edit, fnVars, whVars>>

\* the stream ends: the finally clause puts the sentinel and the function returns
ProducerStop ==
    /\ ppc = "reading"
    /\ stream_end' = "end"
    /\ Finally("returned")
    /\ UNCHANGED <<put_func, opc, msg, posted, error_replies, error_shown, reads, received,
                   q, cpc, assembled, shown_len, done, idle, final_text, last_edit, fnVars, whVars>>

\* reading the stream raises: the finally clause puts the sentinel, the exception
\* propagates
ProducerReadRaise ==
    /\ ppc = "reading"
    /\ stream_end' = "error"
    /\ Finally("raised")
    /\ UNCHANGED <<put_func, opc, msg, posted, error_replies, error_shown, reads, received,
                   q, cpc, assembled, shown_len, done, idle, final_text, last_edit, fnVars, whVars>>

\* the event loop runs the oldest scheduled q.put_nowait
LoopRunCallback ==
    /\ scheduled # <<>>
    /\ q' = Append(q, Head(scheduled))
    /\ scheduled' = Tail(scheduled)
    /\ UNCHANGED <<put_func, opc, msg, posted, error_replies, error_shown, ppc, stream_end,
                   reads, received, put_log, cpc, assembled, shown_len, done, idle, final_text,
                   last_edit, fnVars, whVars>>

\* the texts of the deltas among items, in order
RECURSIVE DeltaTexts(_)
DeltaTexts(items) ==
    IF items = <<>> THEN <<>>
    ELSE IF Head(items) = SENTINEL THEN DeltaTexts(Tail(items))
    ELSE <<Head(items).text>> \o DeltaTexts(Tail(items))

HasSentinel(items) == \E i \in 1..Len(items) : items[i] = SENTINEL

\* TargetLen without the min
TargetLenNoMin(current, shown) == shown + CHARS_PER_TICK

\* target_len = min(len(current), shown_len + CHARS_PER_TICK)
TargetLen(current, shown) == Min(Len(current), shown + CHARS_PER_TICK)

\* a consumer that advances shown_len only when msg.edit succeeded
ShownIfEdited(target_len, shown, ok) == IF ok THEN target_len ELSE shown

\* shown_len = target_len, after the try/except around msg.edit, whatever `ok`,
\* the outcome of the edit, was
ShownAfterEdit(target_len, shown, ok) == target_len

\* a cursor shown on every partial render
ShowCursorAlways(isDone) == TRUE

\* show_cursor=not done
ShowCursor(isDone) == ~isDone

\* one iteration of the consumer loop after its sleep: drain, reveal, test for the end;
\* `ok` is whether msg.edit succeeds, when the iteration edits
ConsumerTick ==
    /\ cpc = "sleeping"
    /\ \E ok \in BOOLEAN :
       LET drained    == DeltaTexts(q)
           nowDone    == done \/ HasSentinel(q)
           current    == Join(assembled \o drained)
           target_len == TargetLen(current, shown_len)
           shown      == IF target_len > shown_len
                         THEN ShownAfterEdit(target_len, shown_len, ok)
                         ELSE shown_len
       IN  /\ q' = <<>>
           /\ assembled' = assembled \o drained
           /\ done' = nowDone
           /\ idle' = IF drained # <<>> THEN 0 ELSE Min(idle + 1, MaxIdle)
           /\ shown_len' = shown
           /\ IF target_len > shown_len
              THEN /\ last_edit' = [kind |-> "partial", shown |-> target_len,
                                    cursor |-> ShowCursor(nowDone), ok |-> ok]
                   /\ msg' = IF ok
                             THEN update_embed_with_partial(base_embed,
                                      Prefix(current, target_len), ShowCursor(nowDone))
                             ELSE msg
              ELSE UNCHANGED <<last_edit, msg>>
           /\ IF nowDone /\ shown >= Len(current)
              THEN cpc' = "returned" /\ final_text' = current
              ELSE UNCHANGED <<cpc, final_text>>
    /\ UNCHANGED <<put_func, opc, posted, error_replies, error_shown, ppc, stream_end, reads,
                   received, put_log, scheduled, fnVars, whVars>>

\* the producer task is finished: the function returned or raised
ProducerOver == ppc \in {"returned", "raised", "put_raised", "open_raised"}

\* final_text.strip() replaced by final_text
FinalAnswerUnstripped(text) == IF text # <<>> THEN text ELSE NO_ANSWER

\* final_text.strip() or "No answer returned."
FinalAnswer(text) ==
    LET stripped == StripSet(text, Whitespace)
    IN  IF stripped # <<>> THEN stripped ELSE NO_ANSWER

\* a final edit that waits for the producer only
CanFinalizeEarly == ProducerOver

\* respond_with_ai is past "await smooth_typing_display" and "await producer_task"
CanFinalize == cpc = "returned" /\ ProducerOver

\* after the consumer returned: await producer_task, build the final embed, edit
Finalize ==
    /\ opc = "streaming"
    /\ CanFinalize
    /\ \E ok \in BOOLEAN :
          /\ last_edit' = [kind |-> "final", shown |-> shown_len, cursor |-> FALSE, ok |-> ok]
          /\ IF ok
             THEN /\ msg' = update_embed_with_answer(base_embed, FinalAnswer(final_text), <<>>)
                  /\ opc' = "done"
             ELSE /\ opc' = "handler"
                  /\ UNCHANGED msg
    /\ UNCHANGED <<put_func, posted, error_replies, error_shown, ppc, stream_end, reads,
                   received, put_log, scheduled, q, cpc, assembled, shown_len, done, idle,
                   final_text, fnVars, whVars>>

\* a handler that lets the failure of its reply out of respond_with_ai
AfterReplyUncaught(ok) == IF ok THEN "done" ELSE "raised"

\* how respond_with_ai ends after the reply was attempted: "except Exception: pass"
AfterReply(ok) == "done"

\* the outer except: one error reply, whose own failure is swallowed
ErrorReply ==
    /\ opc = "handler"
    /\ \E ok \in BOOLEAN :
          /\ error_shown' = ok
          /\ opc' = AfterReply(ok)
    /\ error_replies' = error_replies + 1
    /\ UNCHANGED <<put_func, msg, posted, ppc, stream_end, reads, received, put_log, scheduled,
                   q, cpc, assembled, shown_len, done, idle, final_text, last_edit, fnVars, whVars>>

Next ==
    \/ SendInitial
    \/ ProducerOpen
    \/ ProducerNext
    \/ ProducerStop
    \/ ProducerReadRaise
    \/ LoopRunCallback
    \/ ConsumerTick
    \/ Finalize
    \/ ErrorReply

Spec == Init /\ [][Next]_vars

\* The event loop runs every ready callback and timer, and the executor runs the
\* worker thread; the upstream is taken to answer every read, so that no hang
\* found under this specification is the upstream's.
FairSpec ==
    /\ Spec
    /\ WF_vars(SendInitial)
    /\ WF_vars(ProducerOpen)
    /\ WF_vars(ProducerNext \/ ProducerStop \/ ProducerReadRaise)
    /\ WF_vars(LoopRunCallback)
    /\ WF_vars(ConsumerTick)
    /\ WF_vars(Finalize)
    /\ WF_vars(ErrorReply)

\* ------------------------------------------------- the functions on their own
FnInit ==
    /\ put_func = "put_now"
    /\ opc = "start" /\ msg = NoEmbed /\ posted = FALSE
    /\ error_replies = 0 /\ error_shown = FALSE
    /\ ppc = "none" /\ stream_end = "none" /\ reads = 0 /\ received = <<>> /\ put_log = <<>>
    /\ scheduled = <<>> /\ q = <<>>
    /\ cpc = "none" /\ assembled = <<>> /\ shown_len = 0 /\ done = FALSE
    /\ idle = 0 /\ final_text = <<>> /\ last_edit = NoEdit
    /\ fn = "none"
    /\ arg_s \in StringsUpTo(Chars, MaxLen)
    /\ arg_limit = 1
    /\ arg_cursor = FALSE
    /\ ret_chunks = <<>> /\ ret_body = <<>> /\ ret_emb = NoEmbed
    /\ arg_emb = NoEmbed /\ arg_usage = <<>>
    /\ whIdle

CallChunkText ==
    /\ fn = "none"
    /\ fn' = "chunk_text"
    /\ \E limit \in 1..MaxLimit :
          /\ arg_limit' = limit
          /\ ret_chunks' = chunk_text(arg_s, limit)
    /\ UNCHANGED <<reqVars, whVars, arg_s, arg_cursor, ret_body, ret_emb, arg_emb, arg_usage>>

\* what get_asker_identity returns: no name, a name without or with an avatar
Askers == {[name |-> "", avatar |-> ""],
           [name |-> AskerName, avatar |-> ""],
           [name |-> AskerName, avatar |-> AskerAvatar]}

\* make_embed(question, asker_name, asker_avatar) as respond_with_ai calls it
CallMakeEmbed ==
    /\ fn = "none"
    /\ fn' = "make_embed"
    /\ \E asker \in Askers :
          ret_emb' = make_embed(arg_s, asker.name, asker.avatar, GENERATING)
    /\ UNCHANGED <<reqVars, whVars, arg_s, arg_limit, arg_cursor, ret_chunks, ret_body, arg_emb,
                   arg_usage>>

\* embeds the builders are handed: the initial embed of a request, one of an
\* anonymous asker with a long question, and the results of earlier updates
EmbInputs ==
    {base_embed,
     make_embed(<<"a", "a", SP, "a", "a">>, "", "", GENERATING),
     update_embed_with_partial(base_embed, <<"a", "a", SP, "a">>, TRUE),
     update_embed_with_answer(base_embed, <<"a", "a", "a", "a", "a">>, <<"u">>)}

\* usage_text: None, a short note, one longer than EMBED_FIELD_LIMIT
Usages == {<<>>, <<"u">>, <<"u", "s", "a", "g", "e">>}

CallUpdateEmbedWithAnswer ==
    /\ fn = "none"
    /\ fn' = "update_embed_with_answer"
    /\ \E emb \in EmbInputs, usage_text \in Usages :
          /\ arg_emb' = emb
          /\ arg_usage' = usage_text
          /\ ret_body' = AnswerBody(arg_s)
          /\ ret_emb' = update_embed_with_answer(emb, arg_s, usage_text)
    /\ UNCHANGED <<reqVars, whVars, arg_s, arg_limit, arg_cursor, ret_chunks>>

CallUpdateEmbedWithPartial ==
    /\ fn = "none"
    /\ fn' = "update_embed_with_partial"
    /\ \E emb \in EmbInputs, show_cursor \in BOOLEAN :
          /\ arg_emb' = emb
          /\ arg_cursor' = show_cursor
          /\ ret_body' = PartialBody(arg_s, show_cursor)
          /\ ret_emb' = update_embed_with_partial(emb, arg_s, show_cursor)
    /\ UNCHANGED <<reqVars, whVars, arg_s, arg_limit, ret_chunks, arg_usage>>

FnNext ==
    \/ CallChunkText
    \/ CallMakeEmbed
    \/ CallUpdateEmbedWithAnswer
    \/ CallUpdateEmbedWithPartial

FnSpec == FnInit /\ [][FnNext]_vars

\* ------------------------------------------------- the webhook cache
\* several requests in one channel, each in post_question_via_webhook_if_enabled
WebhookInit ==
    /\ put_func = "put_now"
    /\ opc = "start" /\ msg = NoEmbed /\ posted = FALSE
    /\ error_replies = 0 /\ error_shown = FALSE
    /\ ppc = "none" /\ stream_end = "none" /\ reads = 0 /\ received = <<>> /\ put_log = <<>>
    /\ scheduled = <<>> /\ q = <<>>
    /\ cpc = "none" /\ assembled = <<>> /\ shown_len = 0 /\ done = FALSE
    /\ idle = 0 /\ final_text = <<>> /\ last_edit = NoEdit
    /\ fnIdle
    /\ wh_cache = NoWebhook
    /\ wh_pc = [r \in Requests |-> "start"]
    /\ wh_ret = [r \in Requests |-> NoWebhook]
    /\ channel_api \in BOOLEAN
    /\ channel_webhooks \in {{}, {FoundWebhook}}
    /\ wh_created = 0
    /\ wh_overwritten = FALSE

\* return wh: the call of request r is over
WhReturn(r, wh) ==
    /\ wh_pc' = [wh_pc EXCEPT ![r] = "done"]
    /\ wh_ret' = [wh_ret EXCEPT ![r] = wh]

\* _webhook_cache[channel.id] = wh
WhStore(wh) ==
    /\ wh_cache' = wh
    /\ wh_overwritten' = (wh_overwritten \/ wh_cache # NoWebhook)

\* from the call to the first await: the hasattr test and the cache lookup
WhCheckCache(r) ==
    /\ wh_pc[r] = "start"
    /\ IF ~channel_api THEN WhReturn(r, NoWebhook)
       ELSE IF wh_cache # NoWebhook THEN WhReturn(r, wh_cache)
       ELSE /\ wh_pc' = [wh_pc EXCEPT ![r] = "listing"]
            /\ UNCHANGED wh_ret
    /\ UNCHANGED <<reqVars, fnVars, wh_cache, channel_api, channel_webhooks, wh_created,
                   wh_overwritten>>

\* await channel.webhooks() completes, or raises; an existing "AI Relay" webhook is
\* cached and returned, otherwise the request goes on to create one
WhListed(r) ==
    /\ wh_pc[r] = "listing"
    /\ \E ok \in BOOLEAN :
          IF ~ok
          THEN /\ WhReturn(r, NoWebhook)
               /\ UNCHANGED <<wh_cache, wh_overwritten>>
          ELSE IF channel_webhooks # {}
          THEN \E existing \in channel_webhooks :
                  /\ WhStore(existing)
                  /\ WhReturn(r, existing)
          ELSE /\ wh_pc' = [wh_pc EXCEPT ![r] = "creating"]
               /\ UNCHANGED <<wh_ret, wh_cache, wh_overwritten>>
    /\ UNCHANGED <<reqVars, fnVars, channel_api, channel_webhooks, wh_created>>

\* await channel.create_webhook(...) completes, or raises (Forbidden or other)
WhCreated(r) ==
    /\ wh_pc[r] = "creating"
    /\ \E ok \in BOOLEAN :
          IF ~ok
          THEN /\ WhReturn(r, NoWebhook)
               /\ UNCHANGED <<wh_cache, wh_overwritten, channel_webhooks, wh_created>>
          ELSE /\ channel_webhooks' = channel_webhooks \cup {Created(r)}
               /\ wh_created' = wh_created + 1
               /\ WhStore(Created(r))
               /\ WhReturn(r, Created(r))
    /\ UNCHANGED <<reqVars, fnVars, channel_api>>

WebhookNext ==
    \E r \in Requests :
        \/ WhCheckCache(r)
        \/ WhListed(r)
        \/ WhCreated(r)

WebhookSpec == WebhookInit /\ [][WebhookNext]_vars

\* ================================================================ claims

\* C1: once the upstream stream has ended, normally or by an exception thrown while
\* reading it, after any deltas or none, smooth_typing_display eventually returns.
C1_ConsumerReturns == (stream_end \in {"end", "error"}) ~> (cpc = "returned")

\* C2: whenever the producer has ended, however it ended, exactly one terminal
\* event was put on the channel and it is the last item put.
C2_OneTerminalEvent ==
    ProducerOver =>
        /\ put_log # <<>>
        /\ put_log[Len(put_log)] = SENTINEL
        /\ \A i \in 1..(Len(put_log) - 1) : put_log[i] # SENTINEL

\* C3: once no delta has arrived for longer than STALL_TIMEOUT the consumer is
\* not still waiting for a terminal event: it has forced done.
C3_StallWatchdog == (cpc = "sleeping" /\ idle > STALL_TIMEOUT) => done

\* C4: a posted placeholder is eventually replaced by an answer, or an error
\* reply is attempted.
C4_PlaceholderReplaced == posted ~> (msg # base_embed \/ error_replies > 0)

\* C5: every non-empty delta the producer read is in the channel or in the
\* consumer's accumulator, once and in order, and the text the consumer returns
\* is the concatenation of the deltas read.
C5_DeltasDelivered ==
    /\ assembled \o DeltaTexts(q) \o DeltaTexts(scheduled) = received
    /\ cpc = "returned" => final_text = Join(received)

\* C6: shown_len never decreases, partial edits reveal ever longer prefixes,
\* shown_len never exceeds the length of the accumulated text, and at the return
\* it equals the length of the accumulated text, which is the text returned.
C6_MonotonicReveal ==
    /\ [][shown_len' >= shown_len]_vars
    /\ [][(last_edit' # last_edit /\ last_edit'.kind = "partial")
            => (last_edit'.shown > last_edit.shown /\ last_edit'.shown = shown_len')]_vars
    /\ [](shown_len <= Len(Join(assembled)))
    /\ [](cpc = "returned" =>
            /\ final_text = Join(assembled)
            /\ shown_len = Len(final_text))

\* a reveal that took several ticks has ended
C6_Witness ==
    /\ cpc = "returned"
    /\ last_edit.kind = "partial"
    /\ shown_len > CHARS_PER_TICK

\* some line of s is longer than limit and another line follows it
HardSplitThenMore(s, limit) ==
    LET lines == SplitLines(s)
    IN  \E i \in 1..(Len(lines) - 1) : Len(lines[i]) > limit /\ Len(lines[i]) % limit # 0

\* C7: every element of chunk_text(s, limit) has length at most limit.
C7_ChunkSize ==
    fn = "chunk_text" => \A i \in 1..Len(ret_chunks) : Len(ret_chunks[i]) <= arg_limit

\* a hard-split line whose short tail piece is followed by further lines
C7_Witness ==
    /\ fn = "chunk_text"
    /\ HardSplitThenMore(arg_s, arg_limit)
    /\ Len(ret_chunks) >= 3

\* s is the elements of outs in order, with runs of newlines before, between and
\* after them
RECURSIVE Reassembles(_, _)
Reassembles(s, outs) ==
    IF outs = <<>> THEN \A i \in 1..Len(s) : s[i] = NL
    ELSE \E k \in 0..Len(s) :
            /\ \A i \in 1..k : s[i] = NL
            /\ k + Len(Head(outs)) <= Len(s)
            /\ SubSeq(s, k + 1, k + Len(Head(outs))) = Head(outs)
            /\ Reassembles(SubSeq(s, k + Len(Head(outs)) + 1, Len(s)), Tail(outs))

\* C8: s is the concatenation, in order, of the elements of chunk_text(s, limit)
\* with newlines reinserted at the elements' edges.
C8_ChunkLossless == fn = "chunk_text" => Reassembles(arg_s, ret_chunks)

\* several elements, and newlines were trimmed
C8_Witness ==
    /\ fn = "chunk_text"
    /\ Len(ret_chunks) >= 2
    /\ Len(Join(ret_chunks)) < Len(arg_s)
    /\ \E i \in 1..Len(arg_s) : arg_s[i] = SP

\* C9: chunk_text(s, limit) contains no empty element.
C9_NoEmptyChunk ==
    fn = "chunk_text" => \A i \in 1..Len(ret_chunks) : ret_chunks[i] # <<>>

IsBuilder == fn \in {"update_embed_with_answer", "update_embed_with_partial"}

\* C10 as stated: the body handed to the chunker, marker and cursor included,
\* never exceeds ANSWER_TOTAL_LIMIT characters.
C10_BodyWithinLimit == IsBuilder => Len(ret_body) <= ANSWER_TOTAL_LIMIT

\* C10 amended: the body is at most the first ANSWER_TOTAL_LIMIT characters of the
\* text, plus the truncation marker when the text was longer, plus the cursor
\* when it is shown.
C10_BodyWithinLimitPlusMarks ==
    IsBuilder =>
        Len(ret_body) <= Min(Len(arg_s), ANSWER_TOTAL_LIMIT)
                         + (IF Len(arg_s) > ANSWER_TOTAL_LIMIT THEN Len(TRUNC_MARKER) ELSE 0)
                         + (IF fn = "update_embed_with_partial" /\ arg_cursor
                            THEN Len(CURSOR) ELSE 0)

\* a truncated partial body with the cursor, as long as it can get
C10_Witness ==
    /\ fn = "update_embed_with_partial"
    /\ arg_cursor
    /\ Len(arg_s) > ANSWER_TOTAL_LIMIT
    /\ Len(ret_body) = ANSWER_TOTAL_LIMIT + Len(TRUNC_MARKER) + Len(CURSOR)


\* the body without the cursor update_embed_with_partial appended to it
BodySansCursor ==
    IF fn = "update_embed_with_partial" /\ arg_cursor
    THEN SubSeq(ret_body, 1, Len(ret_body) - Len(CURSOR))
    ELSE ret_body

\* C11 as stated: a text longer than ANSWER_TOTAL_LIMIT is rendered as exactly its
\* first ANSWER_TOTAL_LIMIT characters followed by the truncation marker, any other
\* text as it is, without a marker.
C11_TruncatedExactly ==
    IsBuilder =>
        BodySansCursor = IF Len(arg_s) > ANSWER_TOTAL_LIMIT
                         THEN SubSeq(arg_s, 1, ANSWER_TOTAL_LIMIT) \o TRUNC_MARKER
                         ELSE arg_s

\* C11 amended: a text longer than ANSWER_TOTAL_LIMIT is rendered as its first
\* ANSWER_TOTAL_LIMIT characters less their trailing whitespace, followed by the
\* truncation marker; any other text is rendered as it is, without a marker; the
\* cursor, when shown, comes last.
C11_TruncatedAndTrimmed ==
    IsBuilder =>
        /\ ret_body = BodySansCursor
                      \o (IF fn = "update_embed_with_partial" /\ arg_cursor THEN CURSOR ELSE <<>>)
        /\ IF Len(arg_s) > ANSWER_TOTAL_LIMIT
           THEN \E k \in 0..ANSWER_TOTAL_LIMIT :
                   /\ BodySansCursor = SubSeq(arg_s, 1, k) \o TRUNC_MARKER
                   /\ \A i \in (k + 1)..ANSWER_TOTAL_LIMIT : arg_s[i] \in Whitespace
                   /\ k > 0 => arg_s[k] \notin Whitespace
           ELSE BodySansCursor = arg_s

\* a truncated text whose cut ends in whitespace
C11_Witness ==
    /\ IsBuilder
    /\ Len(arg_s) > ANSWER_TOTAL_LIMIT
    /\ arg_s[ANSWER_TOTAL_LIMIT] \in Whitespace
    /\ arg_s[1] \notin Whitespace


\* the functions that build a display
IsDisplay == fn \in {"make_embed", "update_embed_with_answer", "update_embed_with_partial"}

\* C12: in the display make_embed builds for any question, and in the one either
\* update builds from any earlier display, text and usage note, every field value
\* is non-empty and at most EMBED_FIELD_LIMIT characters long.
C12_FieldsWithinLimit ==
    IsDisplay =>
        \A i \in 1..Len(ret_emb.fields) :
            /\ ret_emb.fields[i].value # <<>>
            /\ Len(ret_emb.fields[i].value) <= EMBED_FIELD_LIMIT

\* a final display with a chunk that came out empty and a usage note that was cut
C12_Witness ==
    /\ fn = "update_embed_with_answer"
    /\ Len(arg_usage) > EMBED_FIELD_LIMIT
    /\ \E i \in 1..Len(chunk_text(ret_body, EMBED_FIELD_LIMIT)) :
          chunk_text(ret_body, EMBED_FIELD_LIMIT)[i] = <<>>
    /\ Len(ret_emb.fields) > 3


\* the final edit was issued and succeeded
FinalOk == last_edit.kind = "final" /\ last_edit.ok

AllWhitespace(text) == \A i \in 1..Len(text) : text[i] \in Whitespace

\* the final display of the fallback text
FallbackDisplay == update_embed_with_answer(base_embed, NO_ANSWER, <<>>)

StepRaised == (opc # "start" /\ ~posted) \/ (last_edit.kind = "final" /\ ~last_edit.ok)

\* C14: respond_with_ai never ends by raising; when one of its steps raised, the
\* final edit included, the handler attempts one error reply and no more, and the
\* failure of that reply is swallowed; without a raising step there is no reply.
C14_OneErrorReply ==
    /\ opc \in {"start", "streaming", "handler", "done"}
    /\ error_replies <= 1
    /\ StepRaised => (opc = "handler" /\ error_replies = 0) \/ (opc = "done" /\ error_replies = 1)
    /\ ~StepRaised => error_replies = 0
    /\ error_shown => error_replies = 1

\* the final edit raised, the one error reply failed too, and the request is over
C14_Witness ==
    /\ opc = "done" /\ error_replies = 1 /\ ~error_shown
    /\ last_edit.kind = "final" /\ ~last_edit.ok

\* C15: after a partial edit, failed or not, the consumer is still running or has
\* returned, the request is still streaming and shown_len is the length that edit
\* was to show; and the text the consumer returns is every delta put, in order.
C15_FailedEditSwallowed ==
    /\ last_edit.kind = "partial" =>
          /\ shown_len = last_edit.shown
          /\ cpc \in {"sleeping", "returned"}
          /\ opc = "streaming"
    /\ cpc = "returned" => final_text = Join(DeltaTexts(put_log))

\* the last partial edit failed and the consumer has returned a text of several ticks
C15_Witness ==
    /\ cpc = "returned" /\ Len(final_text) > CHARS_PER_TICK
    /\ last_edit.kind = "partial" /\ ~last_edit.ok

\* C16: the final edit is issued only once the consumer has returned, and no edit
\* follows it.
C16_FinalEditLast ==
    [][/\ (last_edit.kind # "final" /\ last_edit'.kind = "final") => cpc = "returned"
       /\ last_edit.kind = "final" => last_edit' = last_edit]_vars

\* the final edit was issued after more than one partial edit
C16_Witness == last_edit.kind = "final" /\ shown_len > CHARS_PER_TICK


\* the names of the fields make_embed and the updates give that are not Answer fields
OtherNames == {"Question", "Question (cont.)", "Usage"}
StreamNames == {"Answer", "Answer (streaming)", "Answer (cont.)"}

\* C17: the display an update returns has the author of its input, starts with the
\* input's non-Answer fields, as they were and in their order, followed by one Answer
\* field per chunk of the new body and nothing else but the new usage note; the input
\* is as it was handed in.
C17_UpdateKeepsFrame ==
    IsBuilder =>
        LET kept   == SelectSeq(arg_emb.fields, LAMBDA f : f.name \in OtherNames)
            n      == Len(kept)
            chunks == chunk_text(ret_body, EMBED_FIELD_LIMIT)
            m      == Len(chunks)
            first  == IF fn = "update_embed_with_answer" THEN "Answer" ELSE "Answer (streaming)"
            usage  == IF fn = "update_embed_with_answer" /\ arg_usage # <<>> THEN 1 ELSE 0
        IN  /\ arg_emb \in EmbInputs
            /\ ret_emb.author = arg_emb.author
            /\ Len(ret_emb.fields) = n + m + usage
            /\ SubSeq(ret_emb.fields, 1, n) = kept
            /\ \A i \in 1..m :
                  /\ ret_emb.fields[n + i].name = (IF i = 1 THEN first ELSE "Answer (cont.)")
                  /\ ret_emb.fields[n + i].idx = i - 1
                  /\ ret_emb.fields[n + i].value =
                        (IF chunks[i] = <<>> THEN <<"U+2014">> ELSE chunks[i])
            /\ usage = 1 => ret_emb.fields[n + m + 1].name = "Usage"

\* an update of a display that has an author, a usage note and more Answer fields
\* than the new body needs
C17_Witness ==
    /\ IsBuilder
    /\ arg_emb.author # NoAuthor
    /\ \E i \in 1..Len(arg_emb.fields) : arg_emb.fields[i].name = "Usage"
    /\ Len(SelectSeq(arg_emb.fields, LAMBDA f : f.name \in StreamNames)) > 2
    /\ Len(SelectSeq(ret_emb.fields, LAMBDA f : f.name \in StreamNames)) = 1

\* the cursor glyph occurs in a field of emb
HasCursor(emb) ==
    \E i \in 1..Len(emb.fields) :
        \E j \in 1..Len(emb.fields[i].value) : emb.fields[i].value[j] = "U+258B"

\* C19: a partial edit is built with the cursor exactly when the sentinel has not
\* been drained by then, and shows it exactly then; it reveals at least one and at
\* most CHARS_PER_TICK characters more than the one before; the final display shows
\* no cursor.
C19_CursorWhileStreaming ==
    /\ [][(last_edit' # last_edit /\ last_edit'.kind = "partial") =>
             /\ last_edit'.cursor = ~done'
             /\ last_edit'.ok => (HasCursor(msg') <=> ~done')
             /\ shown_len' - shown_len \in 1..CHARS_PER_TICK
             /\ last_edit'.shown = shown_len']_vars
    /\ [](FinalOk => ~HasCursor(msg))

\* a partial edit after the sentinel was drained, with text still to reveal
C19_Witness ==
    /\ last_edit.kind = "partial" /\ last_edit.ok /\ ~last_edit.cursor
    /\ cpc = "sleeping" /\ done /\ ~HasCursor(msg)


\* C18: the requests of one channel create at most one webhook between them, and
\* none stores into the cache entry once it is set; no two of them are past the
\* cache lookup without a result at the same time.
C18_CacheSerialized ==
    /\ wh_created <= 1
    /\ ~wh_overwritten
    /\ Cardinality({r \in Requests : wh_pc[r] \in {"listing", "creating"}}) <= 1

====
